---- MODULE Spec2Model ----
(***************************************************************************)
(* A model of the diver-localisation particle filter                       *)
(* (particle_filter.py, geo.py).                                           *)
(*                                                                         *)
(* Number representation.  Angles are whole degrees on the 90-degree       *)
(* grid, where sind, cosd and the haversine of geo.distance are exact.     *)
(* Lengths are whole units; geo.distance is expressed in quarter great     *)
(* circles (EARTH_RADIUS * pi / 2), which is what it returns exactly for   *)
(* poses on the 90-degree graticule.  math.sqrt is the integer square      *)
(* root and atan2d rounds to the nearest grid angle.  Likelihoods are      *)
(* carried on three levels (peak, near, underflow to 0).  A uniform draw  *)
(* random.random() is k / RandomGrid for k in 0 .. RandomGrid-1, and beta  *)
(* is carried as a numerator over RandomGrid.                              *)
(***************************************************************************)
EXTENDS Integers, Sequences, FiniteSets, TLC

\* ---------------------------------------------------------------- bounds
NumParticles == 2      \* args.num_particles of the filter loop
fov_range == 2         \* args.fov_range
fov_angle == 360       \* args.fov_hor_angle
range_resolution == 1  \* args.range_resolution
angular_resolution == 90  \* args.angular_resolution
MaxRange == 3          \* ranges above this are not explored
MaxLen == 3            \* longest list handed to resample_particles alone
MaxWeight == 2         \* largest weight handed to resample_particles alone
RandomGrid == 2        \* number of distinct values of random.random()

\* ------------------------------------------------------------ value sets
\* Python's None (last_position before the first record)
None == [none |-> TRUE]

GridAngles == {-540, -450, -360, -270, -180, -90, 0, 90, 180, 270, 360, 450, 540}

Lats == {0, 90}
Lons == {0, 90}
Headings == {0, 90, 180, 270}

Abs(v) == IF v < 0 THEN -v ELSE v

\* ------------------------------------------------------------------ trig
\* trig.sind on the 90-degree grid
sind(a) ==
  LET m == a % 360 IN IF m = 90 THEN 1 ELSE IF m = 270 THEN -1 ELSE 0

\* trig.cosd on the 90-degree grid
cosd(a) ==
  LET m == a % 360 IN IF m = 0 THEN 1 ELSE IF m = 180 THEN -1 ELSE 0

\* trig.atan2d(y, x) in [-180, +180], rounded to the nearest grid angle
\* (a tie between two grid angles goes to the x axis); atan2d(0, 0) = 0.
atan2d(y, x) ==
  IF Abs(y) > Abs(x) THEN (IF y > 0 THEN 90 ELSE -90)
  ELSE IF x >= 0 THEN 0
  ELSE IF y >= 0 THEN 180 ELSE -180

\* math.sqrt on whole numbers (rounded down)
sqrt(v) == CHOOSE r \in 0..v : r * r <= v /\ (r + 1) * (r + 1) > v

\* ------------------------------------------------------------------- geo
\* geo.distance: 2 R asin(sqrt(latH + temp * lonH)).  hav2(d) is twice
\* sin(d/2)^2, which is 0, 1, 2, 1 at d = 0, 90, 180, 270; the result
\* 2 asin(sqrt(h)) is 0, 90, 180 degrees of arc at h = 0, 1/2, 1, that is
\* 0, 1, 2 quarter circles.
hav2(d) ==
  LET m == d % 360 IN IF m = 0 THEN 0 ELSE IF m = 180 THEN 2 ELSE 1

distance(lat1, lon1, lat2, lon2) ==
  LET latH2 == hav2(lat1 - lat2)
      lonH2 == hav2(lon1 - lon2)
      temp == cosd(lat1) * cosd(lat2)
  IN  latH2 + temp * lonH2

\* geo.course
course(lat1, lon1, lat2, lon2) ==
  LET delta_y == sind(lon2 - lon1) * cosd(lat2)
      delta_x == cosd(lat1) * sind(lat2)
                 - sind(lat1) * cosd(lat2) * cosd(lon2 - lon1)
  IN  atan2d(delta_y, delta_x) % 360

\* ------------------------------------------------------------ data model
\* SensorPosition
SensorPosition(lat, lon, heading) ==
  [lat |-> lat, lon |-> lon, heading |-> heading]

Poses ==
  {SensorPosition(la, lo, h) : la \in Lats, lo \in Lons, h \in Headings}

\* Measurement
Measurement(surface_range, hor_angle) ==
  [surface_range |-> surface_range, hor_angle |-> hor_angle]

\* Particle.__init__: a random location in the field of view,
\* surface_range in [0, fov_range), hor_angle in [-fov_angle/2, fov_angle/2)
InitialParticles ==
  {[surface_range |-> r, hor_angle |-> a] :
     r \in {v \in 0..fov_range : v < fov_range},
     a \in {g \in GridAngles : 2 * g >= -fov_angle /\ 2 * g < fov_angle}}

\* random.gauss(0.0, sigma) on the grid: 0 when sigma = 0
Gauss(sigma) == {-sigma, 0, sigma}

NoiseDraws(gps, compass) ==
  [last_lat : Gauss(gps), last_lon : Gauss(gps), last_heading : Gauss(compass),
   curr_lat : Gauss(gps), curr_lon : Gauss(gps), curr_heading : Gauss(compass)]

\* -------------------------------------------------------- Particle.move
\* The normalisation of atan2d's output to [0, 360)
NormalizeBearing(b) == IF b < 0 THEN b + 360 ELSE b

\* Particle.move with the new range taken as the sum of the offsets instead
\* of the root of the sum of their squares
moveSigned(p, last_position, curr_position, nz) ==
  LET last_lat == last_position.lat + nz.last_lat
      last_lon == last_position.lon + nz.last_lon
      last_heading == last_position.heading + nz.last_heading
      curr_lat == curr_position.lat + nz.curr_lat
      curr_lon == curr_position.lon + nz.curr_lon
      curr_heading == curr_position.heading + nz.curr_heading
      crs == course(last_lat, last_lon, curr_lat, curr_lon)
      sensor_displacement == distance(last_lat, last_lon, curr_lat, curr_lon)
      target_bearing == last_heading - p.hor_angle
      e1 == sensor_displacement * sind(crs)
      n1 == sensor_displacement * cosd(crs)
      e2 == p.surface_range * sind(target_bearing)
      n2 == p.surface_range * cosd(target_bearing)
      predicted_target_bearing == NormalizeBearing(atan2d(e2 - e1, n2 - n1))
  IN  [surface_range |-> (e2 - e1) + (n2 - n1),
       hor_angle |-> curr_heading - predicted_target_bearing]

\* Particle.move: the particle's new (surface_range, hor_angle), given the
\* two poses and the six Gaussian draws nz.
move(p, last_position, curr_position, nz) ==
  LET last_lat == last_position.lat + nz.last_lat
      last_lon == last_position.lon + nz.last_lon
      last_heading == last_position.heading + nz.last_heading
      curr_lat == curr_position.lat + nz.curr_lat
      curr_lon == curr_position.lon + nz.curr_lon
      curr_heading == curr_position.heading + nz.curr_heading
      crs == course(last_lat, last_lon, curr_lat, curr_lon)
      sensor_displacement == distance(last_lat, last_lon, curr_lat, curr_lon)
      target_bearing == last_heading - p.hor_angle
      e1 == sensor_displacement * sind(crs)
      n1 == sensor_displacement * cosd(crs)
      e2 == p.surface_range * sind(target_bearing)
      n2 == p.surface_range * cosd(target_bearing)
      predicted_target_bearing == NormalizeBearing(atan2d(e2 - e1, n2 - n1))
  IN  [surface_range |-> sqrt((e2 - e1) * (e2 - e1) + (n2 - n1) * (n2 - n1)),
       hor_angle |-> curr_heading - predicted_target_bearing]

\* ------------------------------------------------- measurement likelihood
\* Particle._gaussian on three levels: 2 at the peak x = mu, 1 within one
\* sigma, 0 (underflow) beyond.
gaussian(mu, sigma, x) ==
  IF mu = x THEN 2 ELSE IF Abs(mu - x) <= sigma THEN 1 ELSE 0

\* Particle.measurement_prob
measurement_prob(p, measurement) ==
  gaussian(measurement.surface_range, range_resolution, p.surface_range)
  * gaussian(measurement.hor_angle, angular_resolution, p.hor_angle)

Max2(a, b) == IF a >= b THEN a ELSE b

\* the inner loop accumulating a sum instead of a maximum
RECURSIVE ParticleWeightSum(_, _, _, _)
ParticleWeightSum(p, ms, k, weight) ==
  IF k > Len(ms) THEN weight
  ELSE ParticleWeightSum(p, ms, k + 1, weight + measurement_prob(p, ms[k]))

\* The inner loop of get_weights: weight = max(weight, measurement_prob)
\* over measurements[k..].
RECURSIVE ParticleWeight(_, _, _, _)
ParticleWeight(p, ms, k, weight) ==
  IF k > Len(ms) THEN weight
  ELSE ParticleWeight(p, ms, k + 1, Max2(weight, measurement_prob(p, ms[k])))

\* get_weights: one weight per slot of the particle list, in order
get_weights(h, ps, ms) ==
  [k \in 1..Len(ps) |-> ParticleWeight(h[ps[k]], ms, 1, 0)]

\* ------------------------------------------------- resample_particles
\* max(weights)
RECURSIVE MaxOf(_, _)
MaxOf(ws, k) ==
  IF k > Len(ws) THEN 0
  ELSE Max2(ws[k], MaxOf(ws, k + 1))

\* beta += random.random() * 2.0 * max_weight, the draw being k / RandomGrid
\* and beta a numerator over RandomGrid
AddDraw(b, k, mw) == b + k * 2 * mw

\* the loop condition with >= for >
WheelTurnsOrEqual(b, ws, idx) == b >= RandomGrid * ws[idx + 1]

\* the loop condition: beta > weights[index]
WheelTurns(b, ws, idx) == b > RandomGrid * ws[idx + 1]

\* the subtraction left out
SubtractNothing(b, ws, idx) == b

\* beta -= weights[index]
SubtractWeight(b, ws, idx) == b - RandomGrid * ws[idx + 1]

\* index = (index + 1) % num_particles
NextIndex(idx, n) == (idx + 1) % n

\* a range one short
InRangeShort(k, n) == k < n - 1

\* for i in range(num_particles)
InRange(k, n) == k < n

\* the while loop run to its exit: <<beta, index>> at the exit
RECURSIVE Spin(_, _, _, _)
Spin(b, ws, idx, n) ==
  IF WheelTurns(b, ws, idx)
  THEN Spin(SubtractWeight(b, ws, idx), ws, NextIndex(idx, n), n)
  ELSE <<b, idx>>

\* the for loop run from iteration k: the locals at the return
RECURSIVE Draws(_, _, _, _, _, _, _, _)
Draws(old, ws, n, mw, draws, k, w, out) ==
  IF InRange(k, n)
  THEN LET s == Spin(AddDraw(w[1], draws[k + 1], mw), ws, w[2], n)
       IN  Draws(old, ws, n, mw, draws, k + 1, s, Append(out, old[s[2] + 1]))
  ELSE [new_particles |-> out, beta |-> w[1], index |-> w[2], i |-> k]

\* ------------------------------------------------------------------ state
VARIABLES
  heap,              \* particle object -> its (surface_range, hor_angle)
  particles,         \* main: the list of particle objects
  gps_noise,         \* Particle.gps_noise
  compass_noise,     \* Particle.compass_noise
  last_position,     \* main: last_position
  current_position,  \* main: current_position
  measurements,      \* main: measurements
  weights,           \* main: weights
  old_particles,     \* resample_particles: the argument
  new_particles,     \* resample_particles: new_particles
  num_particles,     \* resample_particles: num_particles
  beta,              \* resample_particles: beta (numerator over RandomGrid)
  max_weight,        \* resample_particles: max_weight
  index,             \* resample_particles: index
  i,                 \* resample_particles: i
  feature_data,      \* main: feature_data
  start,             \* history: the index first drawn by resample_particles
  before,            \* history: heap when main's last operation began
  log,               \* history: main's operations on the current record
  pc                 \* control point

vars ==
  <<heap, particles, gps_noise, compass_noise, last_position,
    current_position, measurements, weights, old_particles, new_particles,
    num_particles, beta, max_weight, index, i, start, feature_data, before, log, pc>>

wheel == <<old_particles, new_particles, num_particles, beta, max_weight,
           index, i, start>>
config == <<gps_noise, compass_noise>>

ObjIds(n) == 1..n

NoParticle == [surface_range |-> 0, hor_angle |-> 0]

Event(op, slot, last, curr) ==
  [op |-> op, slot |-> slot, last |-> last, curr |-> curr]

\* ---------------------------------------------- Particle.move, called alone
InitMove ==
  /\ heap \in [ObjIds(1) -> InitialParticles]
  /\ particles = <<1>>
  /\ \E c \in {<<0, 0>>, <<90, 0>>, <<0, 90>>} :
       gps_noise = c[1] /\ compass_noise = c[2]
  /\ last_position = None
  /\ current_position = None
  /\ feature_data = None
  /\ measurements = <<>>
  /\ weights = <<>>
  /\ old_particles = <<>>
  /\ new_particles = <<>>
  /\ num_particles = 0
  /\ beta = 0
  /\ max_weight = 0
  /\ index = 0
  /\ i = 0
  /\ start = 0
  /\ before = <<>>
  /\ log = <<>>
  /\ pc = "call"

\* particle.move(last, curr) on the one particle
MoveCall(last, curr, nz) ==
  LET q == move(heap[1], last, curr, nz)
  IN  /\ pc \in {"call", "moved"}
      /\ q.surface_range <= MaxRange
      /\ heap' = [heap EXCEPT ![1] = q]
      /\ pc' = "moved"
      /\ UNCHANGED <<particles, last_position, current_position, measurements,
                     weights, feature_data, before, log>>
      /\ UNCHANGED wheel
      /\ UNCHANGED config

NextMove ==
  \E last \in Poses, curr \in Poses :
    \E nz \in NoiseDraws(gps_noise, compass_noise) : MoveCall(last, curr, nz)

SpecMove == InitMove /\ [][NextMove]_vars

\* ----------------------------------------- resample_particles, called alone
InitResample ==
  /\ \E n \in 1..MaxLen :
       /\ heap = [o \in ObjIds(n) |-> NoParticle]
       /\ particles = [k \in 1..n |-> k]
       /\ weights \in [1..n -> 0..MaxWeight]
  /\ gps_noise = 0
  /\ compass_noise = 0
  /\ last_position = None
  /\ current_position = None
  /\ feature_data = None
  /\ measurements = <<>>
  /\ old_particles = <<>>
  /\ new_particles = <<>>
  /\ num_particles = 0
  /\ beta = 0
  /\ max_weight = 0
  /\ index = 0
  /\ i = 0
  /\ start = 0
  /\ before = <<>>
  /\ log = <<>>
  /\ pc = "resample"

main == <<heap, particles, last_position, current_position, measurements,
          weights, feature_data, before, log>>

\* the call and the statements before the for loop
ResampleBegin ==
  /\ pc = "resample"
  /\ old_particles' = particles
  /\ new_particles' = <<>>
  /\ num_particles' = Len(particles)
  /\ beta' = 0
  /\ max_weight' = MaxOf(weights, 1)
  /\ index' \in 0..(Len(particles) - 1)
  /\ start' = index'
  /\ i' = 0
  /\ pc' = "for"
  /\ UNCHANGED main
  /\ UNCHANGED config

\* one iteration of the for loop begins: beta += random.random() * ...
Draw(k) ==
  /\ pc = "for"
  /\ InRange(i, num_particles)
  /\ beta' = AddDraw(beta, k, max_weight)
  /\ pc' = "while"
  /\ UNCHANGED <<old_particles, new_particles, num_particles, max_weight,
                 index, i, start>>
  /\ UNCHANGED main
  /\ UNCHANGED config

\* one iteration of the while loop
Advance ==
  /\ pc = "while"
  /\ WheelTurns(beta, weights, index)
  /\ beta' = SubtractWeight(beta, weights, index)
  /\ index' = NextIndex(index, num_particles)
  /\ UNCHANGED <<old_particles, new_particles, num_particles, max_weight,
                 i, start, pc>>
  /\ UNCHANGED main
  /\ UNCHANGED config

\* the while loop exits: new_particles.append(old_particles[index])
Emit ==
  /\ pc = "while"
  /\ ~WheelTurns(beta, weights, index)
  /\ new_particles' = Append(new_particles, old_particles[index + 1])
  /\ i' = i + 1
  /\ pc' = "for"
  /\ UNCHANGED <<old_particles, num_particles, beta, max_weight, index, start>>
  /\ UNCHANGED main
  /\ UNCHANGED config

\* return new_particles, bound to particles by the caller
ResampleReturn ==
  /\ pc = "for"
  /\ ~InRange(i, num_particles)
  /\ particles' = new_particles
  /\ pc' = "record"
  /\ UNCHANGED <<heap, last_position, current_position, measurements, weights,
                 feature_data, before, log>>
  /\ UNCHANGED wheel
  /\ UNCHANGED config

NextResample ==
  \/ ResampleBegin
  \/ \E k \in 0..(RandomGrid - 1) : Draw(k)
  \/ Advance
  \/ Emit
  \/ ResampleReturn

SpecResample == InitResample /\ [][NextResample]_vars

\* the interpreter runs the call to its end
FairResample == SpecResample /\ WF_vars(NextResample)

\* ------------------------------------------------------------------- main
\* the records get_feature_datas yields
Centroid(rng, hor_ang) == [centroid |-> [range |-> rng, hor_ang |-> hor_ang]]

ClusterLists ==
  {<<>>, <<Centroid(1, 0)>>, <<Centroid(1, 0), Centroid(2, 90)>>,
   <<Centroid(2, 90), Centroid(1, 0)>>}

FeatureDatas ==
  {[position |-> [lat |-> 0, lon |-> lo], heading |-> [heading |-> h],
    filtered_mobile_clusters |-> cs] :
     lo \in Lons, h \in {0, 90}, cs \in ClusterLists}

\* get_measurements
get_measurements(fd) ==
  [k \in 1..Len(fd.filtered_mobile_clusters) |->
     Measurement(fd.filtered_mobile_clusters[k].centroid.range,
                 fd.filtered_mobile_clusters[k].centroid.hor_ang)]

\* the motion update never taken
HasPreviousNever(lp) == FALSE

\* if last_position is not None
HasPrevious(lp) == lp # None

\* for particle in particles: particle.move(last_position, current_position),
\* from slot k on; nzs[k] are the Gaussian draws of the k-th call
RECURSIVE MoveEach(_, _, _, _, _, _)
MoveEach(h, ps, k, last, curr, nzs) ==
  IF k > Len(ps) THEN h
  ELSE MoveEach([h EXCEPT ![ps[k]] = move(h[ps[k]], last, curr, nzs[k])],
                ps, k + 1, last, curr, nzs)

Init ==
  /\ heap \in [ObjIds(NumParticles) -> InitialParticles]
  /\ particles = [k \in 1..NumParticles |-> k]
  /\ gps_noise = 0
  /\ compass_noise = 0
  /\ last_position = None
  /\ current_position = None
  /\ feature_data = None
  /\ measurements = <<>>
  /\ weights = <<>>
  /\ old_particles = <<>>
  /\ new_particles = <<>>
  /\ num_particles = 0
  /\ beta = 0
  /\ max_weight = 0
  /\ index = 0
  /\ i = 0
  /\ start = 0
  /\ before = heap
  /\ log = <<>>
  /\ pc = "fetch"

\* the for statement of the pump takes the next record
Fetch(fd) ==
  /\ pc = "fetch"
  /\ feature_data' = fd
  /\ current_position' =
       SensorPosition(fd.position.lat, fd.position.lon, fd.heading.heading)
  /\ log' = <<Event("fetch", 0, current_position, current_position')>>
  /\ before' = heap
  /\ pc' = "move"
  /\ UNCHANGED <<heap, particles, last_position, measurements, weights>>
  /\ UNCHANGED wheel
  /\ UNCHANGED config

\* the motion update of every slot, when there is a previous pose
MoveParticles ==
  /\ pc = "move"
  /\ IF HasPrevious(last_position)
     THEN \E nzs \in [1..Len(particles) -> NoiseDraws(gps_noise, compass_noise)] :
            LET h == MoveEach(heap, particles, 1, last_position,
                              current_position, nzs)
            IN  /\ \A o \in DOMAIN h : h[o].surface_range <= MaxRange
                /\ heap' = h
                /\ log' = log \o [k \in 1..Len(particles) |->
                                   Event("move", k, last_position, current_position)]
     ELSE UNCHANGED <<heap, log>>
  /\ before' = heap
  /\ pc' = "weigh"
  /\ UNCHANGED <<particles, last_position, current_position, measurements,
                 weights, feature_data>>
  /\ UNCHANGED wheel
  /\ UNCHANGED config

\* measurements = get_measurements(...); weights = get_weights(...)
Weigh ==
  /\ pc = "weigh"
  /\ measurements' = get_measurements(feature_data)
  /\ weights' = get_weights(heap, particles, measurements')
  /\ log' = Append(log, Event("weigh", 0, None, None))
  /\ before' = heap
  /\ pc' = "resample"
  /\ UNCHANGED <<heap, particles, last_position, current_position, feature_data>>
  /\ UNCHANGED wheel
  /\ UNCHANGED config

\* particles = resample_particles(particles, weights), the call run to its
\* return with first index s and uniform draws ds
Resample ==
  /\ pc = "resample"
  /\ \E s \in 0..(Len(particles) - 1) :
       \E ds \in [1..Len(particles) -> 0..(RandomGrid - 1)] :
         LET r == Draws(particles, weights, Len(particles), MaxOf(weights, 1),
                        ds, 0, <<0, s>>, <<>>)
         IN  /\ particles' = r.new_particles
             /\ old_particles' = particles
  /\ log' = Append(log, Event("resample", 0, None, None))
  /\ before' = heap
  /\ pc' = "record"
  /\ UNCHANGED <<heap, last_position, current_position, measurements, weights,
                 feature_data>>
  /\ UNCHANGED <<new_particles, num_particles, beta, max_weight, index, i, start>>
  /\ UNCHANGED config

\* last_position = current_position
Record ==
  /\ pc = "record"
  /\ last_position' = current_position
  /\ log' = Append(log, Event("record", 0, None, None))
  /\ before' = heap
  /\ pc' = "fetch"
  /\ UNCHANGED <<heap, particles, current_position, measurements, weights,
                 feature_data>>
  /\ UNCHANGED wheel
  /\ UNCHANGED config

Next ==
  \/ \E fd \in FeatureDatas : Fetch(fd)
  \/ MoveParticles
  \/ Weigh
  \/ Resample
  \/ Record

Spec == Init /\ [][Next]_vars

\* -------------------------------------------------- get_weights, called alone
\* main at the weighting of a record: any particle cloud of the field of
\* view, any record
InitWeigh ==
  /\ heap \in [ObjIds(NumParticles) -> InitialParticles]
  /\ particles = [k \in 1..NumParticles |-> k]
  /\ gps_noise = 0
  /\ compass_noise = 0
  /\ last_position = None
  /\ feature_data \in FeatureDatas
  /\ current_position =
       SensorPosition(feature_data.position.lat, feature_data.position.lon,
                      feature_data.heading.heading)
  /\ measurements = <<>>
  /\ weights = <<>>
  /\ old_particles = <<>>
  /\ new_particles = <<>>
  /\ num_particles = 0
  /\ beta = 0
  /\ max_weight = 0
  /\ index = 0
  /\ i = 0
  /\ start = 0
  /\ before = heap
  /\ log = <<Event("fetch", 0, None, current_position)>>
  /\ pc = "weigh"

NextWeigh == Weigh

SpecWeigh == InitWeigh /\ [][NextWeigh]_vars

\* ================================================================ claims

\* the position in old_particles of the k-th particle emitted
EmittedFrom(k) ==
  CHOOSE p \in 1..Len(old_particles) : old_particles[p] = new_particles[k]

\* C1: with weights [0, 0, 1] every particle resample_particles emits is the
\* one at index 2, and whenever some weight is positive no particle of weight
\* 0 is emitted, whatever the first index and the uniform draws.
C1_OnlyWeightedEmitted ==
  /\ weights = <<0, 0, 1>> =>
       \A k \in 1..Len(new_particles) : new_particles[k] = old_particles[3]
  /\ (\E p \in 1..Len(weights) : weights[p] > 0) =>
       \A k \in 1..Len(new_particles) : weights[EmittedFrom(k)] > 0

\* C2: the set resample_particles returns shares no particle object with
\* the old set, and no two of its slots hold the same object.
C2_NoSharedParticle ==
  pc = "record" =>
    /\ \A a, b \in 1..Len(particles) : a # b => particles[a] # particles[b]
    /\ \A a \in 1..Len(particles), b \in 1..Len(old_particles) :
         particles[a] # old_particles[b]

\* C3: with identical previous and current poses and noise stddevs 0, the
\* motion update leaves every particle's (surface_range, hor_angle) as it was.
C3_ZeroMotionIdentity ==
  ( /\ pc = "weigh"
    /\ last_position = current_position
    /\ gps_noise = 0
    /\ compass_noise = 0 ) => heap = before

\* C4: every particle's hor_angle is a signed angle of magnitude at most
\* 180 degrees, after any number of move() calls.
C4_BearingSigned ==
  \A o \in DOMAIN heap : heap[o].hor_angle >= -180 /\ heap[o].hor_angle <= 180

\* C5: resample_particles returns as many particles as it was given, for
\* every weight vector: one particle is appended per iteration of the for
\* loop, and the list bound to particles at the return is as long as the
\* old list.
C5_PopulationConstant ==
  /\ pc \in {"for", "while"} => Len(new_particles) = i /\ i <= Len(old_particles)
  /\ pc = "record" =>
       /\ Len(new_particles) = Len(old_particles)
       /\ Len(particles) = Len(old_particles)

C5_Witness ==
  /\ pc = "record"
  /\ Len(particles) > 2
  /\ particles # old_particles
  /\ \E p \in 1..Len(weights) : weights[p] > 0

AllZero == \A p \in 1..Len(weights) : weights[p] = 0

\* C6: when every weight is 0 the wheel index never leaves the first index
\* drawn, and the returned list is num_particles entries that are all the old
\* particle at that index.
C6_AllZeroCollapse ==
  (AllZero /\ pc # "resample") =>
    /\ index = start
    /\ \A k \in 1..Len(new_particles) : new_particles[k] = old_particles[start + 1]
    /\ pc = "record" =>
         /\ Len(particles) = Len(old_particles)
         /\ \A k \in 1..Len(particles) : particles[k] = old_particles[start + 1]

C6_Witness ==
  /\ AllZero
  /\ pc = "record"
  /\ Len(particles) > 1
  /\ start > 0

\* the likelihoods of particle p against every observation of the record
Likelihoods(p) ==
  {measurement_prob(p, measurements[j]) : j \in 1..Len(measurements)}

\* C7: get_weights returns one weight per slot, in order: the largest of the
\* particle's measurement_prob over the record's observations, 0 when there
\* are none; and it changes no particle.
C7_WeightIsMaximum ==
  pc = "resample" =>
    /\ Len(weights) = Len(particles)
    /\ \A k \in 1..Len(particles) :
         LET probs == Likelihoods(heap[particles[k]])
         IN  /\ probs = {} => weights[k] = 0
             /\ probs # {} =>
                  /\ weights[k] \in probs
                  /\ \A x \in probs : weights[k] >= x
    /\ heap = before

C7_Witness ==
  /\ pc = "resample"
  /\ Len(measurements) = 2
  /\ \E k \in 1..Len(particles) :
       /\ measurement_prob(heap[particles[k]], measurements[1]) = 2
       /\ measurement_prob(heap[particles[k]], measurements[2]) = 2
       /\ weights[k] = 2

\* C8: every particle's surface_range is >= 0 after any number of move() calls.
C8_RangeNonNegative ==
  \A o \in DOMAIN heap : heap[o].surface_range >= 0

C8_Witness ==
  /\ pc = "moved"
  /\ heap[1].surface_range >= fov_range
  /\ gps_noise > 0

\* the motion updates the current record calls for: none on the first
\* record, else one per slot with (pose of the record before, current pose)
ExpectedMoves ==
  IF log[1].last = None THEN <<>>
  ELSE [k \in 1..NumParticles |-> Event("move", k, log[1].last, log[1].curr)]

Steps(ops) == [k \in 1..Len(ops) |-> Event(ops[k], 0, None, None)]

\* C9: every record is handled as motion update, weighting, resampling,
\* recording of the pose, in that order and none skipped, except that the
\* motion update is skipped exactly when there is no previous pose; the
\* motion update is called on each slot with (pose of the record before,
\* current pose), and the weights are those of the particles after it.
C9_StepOrder ==
  /\ pc = "fetch" =>
       \/ log = <<>> /\ last_position = None
       \/ /\ Len(log) > 0
          /\ log = <<log[1]>> \o ExpectedMoves
                     \o Steps(<<"weigh", "resample", "record">>)
          /\ last_position = log[1].curr
  /\ pc # "fetch" =>
       /\ Len(log) > 0
       /\ log[1] = Event("fetch", 0, last_position, current_position)
       /\ pc = "move" => log = <<log[1]>>
       /\ pc = "weigh" => log = <<log[1]>> \o ExpectedMoves
       /\ pc = "resample" =>
            /\ log = <<log[1]>> \o ExpectedMoves \o Steps(<<"weigh">>)
            /\ weights = get_weights(heap, particles, measurements)
       /\ pc = "record" =>
            log = <<log[1]>> \o ExpectedMoves \o Steps(<<"weigh", "resample">>)

C9_Witness ==
  /\ pc = "fetch"
  /\ Len(log) = NumParticles + 4
  /\ log[2].last # log[2].curr

\* C10: resample_particles returns, whatever the weights and the draws.
C10_Terminates == <>(pc = "record")

C10_Witness ==
  /\ pc = "record"
  /\ \E p \in 1..Len(weights) : weights[p] > 0
  /\ \E p \in 1..Len(weights) : weights[p] = 0
  /\ index # start

====
